---- MODULE Spec2Model ----
(***************************************************************************)
(* CleanPace (cleanpace.py): the run-style table reader, the speed-block   *)
(* parser and the three button handlers of the Streamlit page.             *)
(*                                                                         *)
(* Text is a sequence of one-character strings; a multi-line text is a     *)
(* sequence of lines.  An optional value (None / NaN) is <<>> and a        *)
(* present value v is <<v>>.  A number with one decimal is kept in tenths  *)
(* (17.7 is 177).                                                          *)
(***************************************************************************)
EXTENDS Integers, Sequences, FiniteSets, TLC

VARIABLES
    block,          \* extract_from_block: the argument
    extracted,      \* extract_from_block: the returned tuple, <<>> before the call
    input_text,     \* tab2: the text area, a sequence of lines
    tab2_out,       \* tab2: what the handler showed
    rs_text,        \* tab1: the text area
    rs_file,        \* tab1: the uploaded file's decoded text, NULL without upload
    tab1_out,       \* tab1: what the handler showed
    rs_text_quick,  \* tab3: left text area
    sp_text_quick,  \* tab3: right text area
    tab3_out        \* tab3: what the handler showed

extractVars == <<block, extracted>>

tab1Vars == <<rs_text, rs_file, tab1_out>>

tab2Vars == <<input_text, tab2_out>>

tab3Vars == <<rs_text_quick, sp_text_quick, tab3_out>>

vars == <<extractVars, tab1Vars, tab2Vars, tab3Vars>>

----------------------------------------------------------------------------
(* Optional values *)

NULL == <<>>

Some(v) == <<v>>

----------------------------------------------------------------------------
(* Characters and the str methods the program uses *)

Digits == {"0", "1", "2", "3", "4", "5", "6", "7", "8", "9"}

Whitespace == {" ", "\t"}

DigitVal(c) ==
    CASE c = "0" -> 0 [] c = "1" -> 1 [] c = "2" -> 2 [] c = "3" -> 3
      [] c = "4" -> 4 [] c = "5" -> 5 [] c = "6" -> 6 [] c = "7" -> 7
      [] c = "8" -> 8 [] c = "9" -> 9

RECURSIVE LStrip(_)
LStrip(s) ==
    IF s # <<>> /\ Head(s) \in Whitespace THEN LStrip(Tail(s)) ELSE s

RECURSIVE RStrip(_)
RStrip(s) ==
    IF s # <<>> /\ s[Len(s)] \in Whitespace
    THEN RStrip(SubSeq(s, 1, Len(s) - 1))
    ELSE s

\* str.strip()
Strip(s) == RStrip(LStrip(s))

\* s.split('(')[0] with the split left out
SplitParenWhole(s) == s

\* s.split('(')[0]
RECURSIVE SplitParen(_)
SplitParen(s) ==
    IF s = <<>> \/ Head(s) = "(" THEN <<>> ELSE <<Head(s)>> \o SplitParen(Tail(s))

\* int(digits)
RECURSIVE ToInt(_)
ToInt(d) ==
    IF d = <<>> THEN 0 ELSE 10 * ToInt(SubSeq(d, 1, Len(d) - 1)) + DigitVal(d[Len(d)])

\* the longest prefix of s made of digits
RECURSIVE DigitPrefix(_)
DigitPrefix(s) ==
    IF s # <<>> /\ Head(s) \in Digits THEN <<Head(s)>> \o DigitPrefix(Tail(s)) ELSE <<>>

\* re.findall(r'\d+', s) with only the first digit of every match kept
RECURSIVE FindAllSingleDigit(_)
FindAllSingleDigit(s) ==
    IF s = <<>> THEN <<>>
    ELSE IF Head(s) \in Digits THEN <<<<Head(s)>>>> \o FindAllSingleDigit(Tail(s))
    ELSE FindAllSingleDigit(Tail(s))

\* re.findall(r'\d+', s): leftmost, greedy, non-overlapping matches
RECURSIVE FindAllDigits(_)
FindAllDigits(s) ==
    IF s = <<>> THEN <<>>
    ELSE IF Head(s) \in Digits
         THEN LET m == DigitPrefix(s)
              IN  <<m>> \o FindAllDigits(SubSeq(s, Len(m) + 1, Len(s)))
         ELSE FindAllDigits(Tail(s))

RECURSIVE SeqSum(_)
SeqSum(f) == IF f = <<>> THEN 0 ELSE Head(f) + SeqSum(Tail(f))

RECURSIVE SeqMax(_)
SeqMax(f) ==
    IF Len(f) = 1 THEN f[1]
    ELSE LET m == SeqMax(Tail(f)) IN IF Head(f) >= m THEN Head(f) ELSE m

\* figures[-3:]
LastThree(f) == SubSeq(f, IF Len(f) > 3 THEN Len(f) - 2 ELSE 1, Len(f))

\* round(t / n) to the nearest integer; with t = 10 * s this is round(s / n, 1)
\* in tenths, for s >= 0 and n > 0.  A tie (10*s/n half-way
\* between two tenths) needs 4 | n, and for n < 20 the quotient is then a
\* multiple of 1/4, which a float holds exactly: Python rounds it half to even.
RoundDiv(t, n) ==
    LET q == t \div n
        r == t % n
    IN  IF 2 * r < n THEN q
        ELSE IF 2 * r > n THEN q + 1
        ELSE IF q % 2 = 0 THEN q ELSE q + 1

Round1(s, n) == RoundDiv(10 * s, n)

----------------------------------------------------------------------------
(* extract_from_block *)

Row(name, last, highest, avg3, avgAll) ==
    [name |-> name, last |-> last, highest |-> highest, avg3 |-> avg3, avgAll |-> avgAll]

NullRow(name) == Row(name, NULL, NULL, NULL, NULL)

extract_from_block(b) ==
    LET horse_name == Strip(b[1])
    IN  IF Len(b) < 4 THEN NullRow(horse_name)
        ELSE LET speed_line == Strip(b[4])
                 speed_str  == Strip(SplitParen(speed_line))
             IN  IF speed_str = <<>> THEN NullRow(horse_name)
                 ELSE LET runs    == FindAllDigits(speed_str)
                          figures == [i \in 1..Len(runs) |-> ToInt(runs[i])]
                      IN  IF figures = <<>> THEN NullRow(horse_name)
                          ELSE Row(horse_name,
                                   Some(figures[Len(figures)]),
                                   Some(SeqMax(figures)),
                                   Some(Round1(SeqSum(LastThree(figures)),
                                               Len(LastThree(figures)))),
                                   Some(Round1(SeqSum(figures), Len(figures))))

----------------------------------------------------------------------------
(* Inputs of extract_from_block *)

MaxLineLen == 5

MaxBlockLen == 5

FigAlphabet == {"1", "2", " ", "("}

SeqsUpTo(S, n) == UNION {[1..k -> S] : k \in 0..n}

\* "12 (12) 15 18 20"
C2Line == <<"1", "2", " ", "(", "1", "2", ")", " ", "1", "5", " ", "1", "8", " ", "2", "0">>

\* "12 15 18 20" (mean 16.25) and "1 2 2 2" (mean 1.75): both tie between two tenths
TieLines == { <<"1", "2", " ", "1", "5", " ", "1", "8", " ", "2", "0">>,
              <<"1", " ", "2", " ", "2", " ", "2">> }

FigLines == SeqsUpTo(FigAlphabet, MaxLineLen) \cup {C2Line} \cup TieLines

ExtractNames == { <<"A">>, <<" ", "B", " ">> }

Filler == <<"x">>

MkBlock(name, fig, n) ==
    SubSeq(<<name, Filler, Filler, fig>> \o [i \in 1..(MaxBlockLen - 4) |-> Filler], 1, n)

ExtractBlocks ==
    {MkBlock(name, fig, n) : name \in ExtractNames, fig \in FigLines, n \in {4, MaxBlockLen}}
    \cup {MkBlock(name, <<>>, n) : name \in ExtractNames, n \in 1..3}

\* nothing handed to extract_from_block, nothing pasted into a tab
NoExtract == block = <<>> /\ extracted = NULL

Tab1Idle == rs_text = <<>> /\ rs_file = NULL /\ tab1_out = NULL

Tab2Idle == input_text = <<>> /\ tab2_out = NULL

Tab3Idle == rs_text_quick = <<>> /\ sp_text_quick = <<>> /\ tab3_out = NULL

InitExtract ==
    /\ block \in ExtractBlocks
    /\ extracted = NULL
    /\ Tab1Idle /\ Tab2Idle /\ Tab3Idle

Extract ==
    /\ block # <<>>
    /\ extracted = NULL
    /\ extracted' = Some(extract_from_block(block))
    /\ UNCHANGED <<block, tab1Vars, tab2Vars, tab3Vars>>

NextExtract == Extract

SpecExtract == InitExtract /\ [][NextExtract]_vars

----------------------------------------------------------------------------
(* Claims about extract_from_block *)

Extracted == extracted[1]

\* C2 (as stated): for a block of at least 4 lines whose line index 3 is
\* "12 (12) 15 18 20", extract_from_block returns last = 20, highest = 20
\* and avg3 = 17.7.
C2_Original ==
    (extracted # NULL /\ Len(block) >= 4 /\ block[4] = C2Line)
        => /\ Extracted.last = Some(20)
           /\ Extracted.highest = Some(20)
           /\ Extracted.avg3 = Some(177)

\* C2 (amended): for a block of at least 4 lines whose line index 3 is
\* "12 (12) 15 18 20", the figures stop at the first '(': extract_from_block
\* returns last = 12, highest = 12 and avg3 = 12.0.
C2_Truncated ==
    (extracted # NULL /\ Len(block) >= 4 /\ block[4] = C2Line)
        => /\ Extracted.last = Some(12)
           /\ Extracted.highest = Some(12)
           /\ Extracted.avg3 = Some(120)

C2_Witness ==
    /\ extracted # NULL /\ Len(block) >= 4 /\ block[4] = C2Line
    /\ Extracted.last # NULL

\* The position of the first '(' of a line, Len + 1 when it has none.
FirstParen(l) ==
    IF \E i \in 1..Len(l) : l[i] = "("
    THEN CHOOSE i \in 1..Len(l) : l[i] = "(" /\ \A j \in 1..(i - 1) : l[j] # "("
    ELSE Len(l) + 1

\* The maximal digit runs of l before its first '(', as <<first, last>> positions.
RunsBeforeParen(l) ==
    LET p == FirstParen(l)
    IN  { r \in (1..Len(l)) \X (1..Len(l)) :
            /\ r[1] <= r[2] /\ r[2] < p
            /\ \A k \in r[1]..r[2] : l[k] \in Digits
            /\ (r[1] = 1 \/ l[r[1] - 1] \notin Digits)
            /\ (r[2] = Len(l) \/ l[r[2] + 1] \notin Digits) }

\* The decimal value of l[a..b].
RECURSIVE Decimal(_, _, _)
Decimal(l, a, b) ==
    IF a > b THEN 0 ELSE Decimal(l, a, b - 1) * 10 + DigitVal(l[b])

\* The values of the runs, ordered by position.
RECURSIVE RunValues(_, _)
RunValues(l, runs) ==
    IF runs = {} THEN <<>>
    ELSE LET r == CHOOSE x \in runs : \A y \in runs : x[1] <= y[1]
         IN  <<Decimal(l, r[1], r[2])>> \o RunValues(l, runs \ {r})

\* t (in tenths) is a nearest one-decimal number to s / n.
IsRounded(t, s, n) ==
    /\ 2 * (10 * s - t * n) <= n
    /\ 2 * (t * n - 10 * s) <= n

\* C3: for every block of at least 4 lines the figures are the maximal digit
\* runs of line index 3 before its first '(', in order; with none, the four
\* numeric outputs are null; otherwise last is the final one, highest the
\* maximum, avg3 the mean of the final min(3, n) and avgAll the mean of all,
\* each mean rounded to one decimal.
C3_Figures ==
    (extracted # NULL /\ Len(block) >= 4) =>
        LET f == RunValues(block[4], RunsBeforeParen(block[4]))
            n == Len(f)
            k == IF n < 3 THEN n ELSE 3
            e == Extracted
        IN  IF n = 0
            THEN e.last = NULL /\ e.highest = NULL /\ e.avg3 = NULL /\ e.avgAll = NULL
            ELSE /\ e.last = Some(f[n])
                 /\ e.highest # NULL
                 /\ \E i \in 1..n : e.highest[1] = f[i]
                 /\ \A i \in 1..n : e.highest[1] >= f[i]
                 /\ e.avg3 # NULL
                 /\ IsRounded(e.avg3[1], SeqSum(SubSeq(f, n - k + 1, n)), k)
                 /\ e.avgAll # NULL
                 /\ IsRounded(e.avgAll[1], SeqSum(f), n)

\* a line with a '(' after two figures, the larger one first
C3_Witness ==
    /\ extracted # NULL /\ Len(block) >= 4
    /\ block[4] = <<"2", " ", "1", "(", "2">>
    /\ Extracted.last = Some(1) /\ Extracted.highest = Some(2)

----------------------------------------------------------------------------
(* parse_speed_blocks *)

BlockSize == 11

HorseWord == <<"H", "o", "r", "s", "e">>

\* w in l
Contains(l, w) ==
    \E i \in 1..(Len(l) - Len(w) + 1) : SubSeq(l, i, i + Len(w) - 1) = w

NonEmpty(l) == l # <<>>

\* [line.strip() for line in raw.strip().splitlines() if line.strip()]
StrippedLines(raw) == SelectSeq([i \in 1..Len(raw) |-> Strip(raw[i])], NonEmpty)

\* the lines left after the optional header line is skipped
SpeedLines(raw) ==
    LET lines == StrippedLines(raw)
    IN  IF lines # <<>> /\ Contains(lines[1], HorseWord) THEN Tail(lines) ELSE lines

\* lines[i:i+11] for i in range(0, len(lines), 11), numbered from 1
Window(lines, k) ==
    SubSeq(lines, BlockSize * (k - 1) + 1,
           IF BlockSize * k < Len(lines) THEN BlockSize * k ELSE Len(lines))

NumWindows(lines) == (Len(lines) + BlockSize - 1) \div BlockSize

\* horses: one extract_from_block tuple per window
Horses(raw) ==
    LET lines == SpeedLines(raw)
    IN  [k \in 1..NumWindows(lines) |-> extract_from_block(Window(lines, k))]

\* Series.max(skipna=True): NaN when every value is null
ColumnMax(vals) ==
    LET present == {vals[i][1] : i \in {j \in 1..Len(vals) : vals[j] # NULL}}
    IN  IF present = {} THEN NULL
        ELSE Some(CHOOSE m \in present : \A v \in present : m >= v)

\* a == b on floats: a NaN (or None against NaN) equals nothing
NumEq(a, b) == a # NULL /\ b # NULL /\ a = b

\* mark_top with the last-figure column left out of the comparison
mark_top_two(row, top_last, top_high, top_avg3) ==
    /\ NumEq(row.highest, top_high)
    /\ NumEq(row.avg3, top_avg3)

mark_top(row, top_last, top_high, top_avg3) ==
    /\ NumEq(row.last, top_last)
    /\ NumEq(row.highest, top_high)
    /\ NumEq(row.avg3, top_avg3)

\* avg_key: the mean of last, highest and avg3 (avg3 is in tenths already)
avg_key(row) ==
    IF row.last = NULL \/ row.highest = NULL \/ row.avg3 = NULL THEN NULL
    ELSE Some(RoundDiv(10 * row.last[1] + 10 * row.highest[1] + row.avg3[1], 3))

\* the rows of the DataFrame parse_speed_blocks returns
SpeedTable(raw) ==
    LET horses   == Horses(raw)
        top_last == ColumnMax([i \in 1..Len(horses) |-> horses[i].last])
        top_high == ColumnMax([i \in 1..Len(horses) |-> horses[i].highest])
        top_avg3 == ColumnMax([i \in 1..Len(horses) |-> horses[i].avg3])
    IN  [i \in 1..Len(horses) |->
            [name    |-> horses[i].name,
             last    |-> horses[i].last,
             highest |-> horses[i].highest,
             avg3    |-> horses[i].avg3,
             avgAll  |-> horses[i].avgAll,
             key     |-> avg_key(horses[i]),
             top     |-> mark_top(horses[i], top_last, top_high, top_avg3)]]

Raised == [ok |-> FALSE, df |-> <<>>]

Returned(df) == [ok |-> TRUE, df |-> df]

\* parse_speed_blocks giving up on the whole text when a window is short
parse_speed_blocks_strict(raw) ==
    IF \E k \in 1..Len(Horses(raw)) : Len(Window(SpeedLines(raw), k)) < 4
    THEN {Raised}
    ELSE {Returned(SpeedTable(raw))}

\* The outcomes of parse_speed_blocks(raw).  With no window at all the frame
\* is empty, df.apply(..., axis=1) hands back a frame instead of a column and
\* the assignment of "Top Ranked?" raises or not with the pandas release.
parse_speed_blocks(raw) ==
    IF Horses(raw) = <<>> THEN {Raised, Returned(<<>>)}
    ELSE {Returned(SpeedTable(raw))}

\* text.strip() of a text area is empty
Blank(raw) == \A i \in 1..Len(raw) : Strip(raw[i]) = <<>>

\* sp_df[["Horse Name", "Key Speed Factors Average"]]
Simplified(df) == [i \in 1..Len(df) |-> [name |-> df[i].name, key |-> df[i].key]]

----------------------------------------------------------------------------
(* TAB 2: the Process Speed Figures handler *)

MaxChunks == 2

SpeedNames == { <<"A", "l">>, <<" ", "B", "o", " ">> }

SpeedFigLines == { <<"9", " ", "1">>, <<"5">>, <<"5", " ", "9">>, <<"(", "3">> }

ChunkLens == {2, 4, BlockSize}

\* the first n lines of one horse's pasted record
Chunk(name, fig, n) ==
    SubSeq(<<name, Filler, Filler, fig>> \o [i \in 1..(BlockSize - 4) |-> Filler], 1, n)

Chunks == {Chunk(name, fig, n) : name \in SpeedNames, fig \in SpeedFigLines, n \in ChunkLens}

RECURSIVE ChunkTexts(_)
ChunkTexts(k) ==
    IF k = 0 THEN {<<>>}
    ELSE LET shorter == ChunkTexts(k - 1)
         IN  shorter \cup {t \o c : t \in shorter, c \in Chunks}

SpeedHeaders == { <<>>, << <<"H", "o", "r", "s", "e", " ", "N", "a", "m", "e">> >>, << <<" ">> >> }

SpeedTexts == {h \o t : h \in SpeedHeaders, t \in ChunkTexts(MaxChunks)}

InitSpeed ==
    /\ input_text \in SpeedTexts
    /\ tab2_out = NULL
    /\ NoExtract /\ Tab1Idle /\ Tab3Idle

Tab2Rest == <<extractVars, input_text, tab1Vars, tab3Vars>>

\* if not input_text.strip(): st.warning(...)
SpeedNothingPasted ==
    /\ tab2_out = NULL
    /\ Blank(input_text)
    /\ tab2_out' = Some([msg |-> "warning", full |-> <<>>, simple |-> <<>>])
    /\ UNCHANGED Tab2Rest

\* parse_speed_blocks returned: both tables and their downloads are shown
SpeedParsed ==
    /\ tab2_out = NULL
    /\ ~Blank(input_text)
    /\ \E r \in parse_speed_blocks(input_text) :
          /\ r.ok
          /\ tab2_out' = Some([msg |-> "success", full |-> r.df, simple |-> Simplified(r.df)])
    /\ UNCHANGED Tab2Rest

\* parse_speed_blocks raised: st.error(...)
SpeedFailed ==
    /\ tab2_out = NULL
    /\ ~Blank(input_text)
    /\ \E r \in parse_speed_blocks(input_text) :
          /\ ~r.ok
          /\ tab2_out' = Some([msg |-> "error", full |-> <<>>, simple |-> <<>>])
    /\ UNCHANGED Tab2Rest

NextSpeed == SpeedNothingPasted \/ SpeedParsed \/ SpeedFailed

SpecSpeed == InitSpeed /\ [][NextSpeed]_vars

----------------------------------------------------------------------------
(* Claims about parse_speed_blocks *)

Tab2Table == tab2_out[1].full

Tab2Success == tab2_out # NULL /\ tab2_out[1].msg = "success"

\* C4: a row of the table carries the top marker if and only if its last,
\* highest and avg3 are all non-null and each is the maximum of its column
\* over all rows, nulls ignored.
C4_JointTop ==
    Tab2Success =>
        LET df == Tab2Table
        IN  \A i \in 1..Len(df) :
              df[i].top <=>
                /\ df[i].last # NULL /\ df[i].highest # NULL /\ df[i].avg3 # NULL
                /\ \A j \in 1..Len(df) :
                     /\ df[j].last # NULL => df[j].last[1] <= df[i].last[1]
                     /\ df[j].highest # NULL => df[j].highest[1] <= df[i].highest[1]
                     /\ df[j].avg3 # NULL => df[j].avg3[1] <= df[i].avg3[1]

\* two rows that each lead two of the three columns: neither is marked
C4_Witness ==
    /\ Tab2Success
    /\ Len(Tab2Table) = 2
    /\ Tab2Table[1].last = Some(5) /\ Tab2Table[1].highest = Some(5)
    /\ Tab2Table[1].avg3 = Some(50)
    /\ Tab2Table[2].last = Some(1) /\ Tab2Table[2].highest = Some(9)
    /\ Tab2Table[2].avg3 = Some(50)
    /\ ~Tab2Table[1].top /\ ~Tab2Table[2].top

\* the lines of window k of the text, counted from the stripped non-empty lines
\* after the header line
WindowStart(k) == BlockSize * (k - 1) + 1

WindowLen(lines, k) ==
    IF Len(lines) - WindowStart(k) + 1 < BlockSize
    THEN Len(lines) - WindowStart(k) + 1
    ELSE BlockSize

\* C9: a window of fewer than 4 lines gives a row with the window's first
\* line as identity and null last, highest, avg3, avgAll and key average, and
\* does not abort the batch: there is one row per window, in input order, and
\* the row of every other window carries that window's own identity and figures.
C9_ShortWindow ==
    (tab2_out # NULL /\ SpeedLines(input_text) # <<>>) =>
        LET lines == SpeedLines(input_text)
            df    == Tab2Table
        IN  /\ Tab2Success
            /\ Len(df) * BlockSize >= Len(lines)
            /\ (Len(df) - 1) * BlockSize < Len(lines)
            /\ \A k \in 1..Len(df) :
                 /\ df[k].name = lines[WindowStart(k)]
                 /\ IF WindowLen(lines, k) < 4
                    THEN /\ k = Len(df)
                         /\ df[k].last = NULL /\ df[k].highest = NULL
                         /\ df[k].avg3 = NULL /\ df[k].avgAll = NULL
                         /\ df[k].key = NULL
                    ELSE LET l == lines[WindowStart(k) + 3]
                             f == RunValues(l, RunsBeforeParen(l))
                         IN  df[k].last = IF f = <<>> THEN NULL ELSE Some(f[Len(f)])

\* a full window with figures followed by a window of two lines
C9_Witness ==
    /\ Tab2Success
    /\ Len(SpeedLines(input_text)) = BlockSize + 2
    /\ Len(Tab2Table) = 2
    /\ Tab2Table[1].last = Some(9) /\ Tab2Table[1].key # NULL
    /\ Tab2Table[2].name = <<"B", "o">> /\ Tab2Table[2].last = NULL

----------------------------------------------------------------------------
(* read_run_style_table *)

TAB == "\t"

COMMA == ","

UpperCase == <<"A", "B", "C", "D", "E", "F", "G", "H", "I", "J", "K", "L", "M",
               "N", "O", "P", "Q", "R", "S", "T", "U", "V", "W", "X", "Y", "Z">>

LowerCase == <<"a", "b", "c", "d", "e", "f", "g", "h", "i", "j", "k", "l", "m",
               "n", "o", "p", "q", "r", "s", "t", "u", "v", "w", "x", "y", "z">>

LowerChar(c) ==
    IF \E i \in 1..26 : UpperCase[i] = c
    THEN LowerCase[CHOOSE i \in 1..26 : UpperCase[i] = c]
    ELSE c

\* str.lower()
Lower(s) == [i \in 1..Len(s) |-> LowerChar(s[i])]

TitleText == <<"r", "u", "n", " ", "s", "t", "y", "l", "e", " ", "f", "i", "g", "u", "r", "e">>

\* wanted, and the characters of each name
Wanted == <<"Horse", "Lto1", "Lto2", "Lto3", "Lto4", "Lto5">>

LtoNames == <<"Lto1", "Lto2", "Lto3", "Lto4", "Lto5">>

NameChars(c) ==
    CASE c = "Horse" -> <<"H", "o", "r", "s", "e">>
      [] c = "Lto1" -> <<"L", "t", "o", "1">>
      [] c = "Lto2" -> <<"L", "t", "o", "2">>
      [] c = "Lto3" -> <<"L", "t", "o", "3">>
      [] c = "Lto4" -> <<"L", "t", "o", "4">>
      [] c = "Lto5" -> <<"L", "t", "o", "5">>

\* raw.strip() on a text held as lines: the blank lines at both ends go, and
\* so does the white space before the first and after the last line's text
RECURSIVE DropBlankHead(_)
DropBlankHead(t) ==
    IF t # <<>> /\ Strip(Head(t)) = <<>> THEN DropBlankHead(Tail(t)) ELSE t

RECURSIVE DropBlankTail(_)
DropBlankTail(t) ==
    IF t # <<>> /\ Strip(t[Len(t)]) = <<>>
    THEN DropBlankTail(SubSeq(t, 1, Len(t) - 1))
    ELSE t

StripText(raw) ==
    LET t == DropBlankTail(DropBlankHead(raw))
    IN  IF t = <<>> THEN <<>>
        ELSE IF Len(t) = 1 THEN <<Strip(t[1])>>
        ELSE <<LStrip(t[1])>> \o SubSeq(t, 2, Len(t) - 1) \o <<RStrip(t[Len(t)])>>

\* the text handed to read_csv: the title line, when there is one, is cut
WithoutTitle(raw) ==
    LET lines == StripText(raw)
    IN  IF lines # <<>> /\ Lower(Strip(lines[1])) = TitleText THEN Tail(lines) ELSE lines

\* the fields of one line of a delimited file (no quoting in the texts modelled)
RECURSIVE Split(_, _)
Split(l, sep) ==
    IF \E i \in 1..Len(l) : l[i] = sep
    THEN LET i == CHOOSE k \in 1..Len(l) : l[k] = sep /\ \A j \in 1..(k - 1) : l[j] # sep
         IN  <<SubSeq(l, 1, i - 1)>> \o Split(SubSeq(l, i + 1, Len(l)), sep)
    ELSE <<l>>

NoFrame == [ok |-> FALSE, columns |-> <<>>, cells |-> <<>>]

\* pd.read_csv(StringIO(text), sep=sep, header=h) with the C parser's defaults:
\* empty lines are skipped; no line at all, or no line for the header, raises;
\* the header line names the columns; a data row after the first that has more
\* fields than the one before it raises ("Expected n fields, saw m"); shorter
\* rows are padded with NaN; a first data row longer than the header makes
\* its leading fields the index.  An empty cell is NaN.
read_csv(text, sep, h) ==
    LET ls == SelectSeq(text, NonEmpty)
    IN  IF Len(ls) <= h THEN NoFrame
        ELSE LET hdr    == Split(ls[h + 1], sep)
                 data   == SubSeq(ls, h + 2, Len(ls))
                 fields == [i \in 1..Len(data) |-> Split(data[i], sep)]
                 width  == IF data # <<>> /\ Len(fields[1]) > Len(hdr)
                           THEN Len(fields[1]) ELSE Len(hdr)
                 lead   == width - Len(hdr)
             IN  IF \E i \in 2..Len(data) : Len(fields[i]) > width THEN NoFrame
                 ELSE [ok      |-> TRUE,
                       columns |-> hdr,
                       cells   |-> [i \in 1..Len(data) |->
                                      [j \in 1..Len(hdr) |->
                                         IF j + lead <= Len(fields[i])
                                         THEN fields[i][j + lead] ELSE NULL]]]

\* try: sep="\t" except: the default separator
read_csv_tsv_first(text, h) ==
    IF read_csv(text, TAB, h).ok THEN read_csv(text, TAB, h) ELSE read_csv(text, COMMA, h)

\* c in df.columns
HasColumn(df, c) == \E j \in 1..Len(df.columns) : df.columns[j] = NameChars(c)

\* [c for c in wanted if c in df.columns]
Present(df) == SelectSeq(Wanted, LAMBDA c : HasColumn(df, c))

\* df[c] of row i: the first column of that name (a later one is renamed)
Cell(df, i, c) ==
    df.cells[i][CHOOSE j \in 1..Len(df.columns) :
                   /\ df.columns[j] = NameChars(c)
                   /\ \A k \in 1..(j - 1) : df.columns[k] # NameChars(c)]

AllDigits(s) == s # <<>> /\ \A i \in 1..Len(s) : s[i] \in Digits

\* pd.to_numeric(..., errors="coerce") of one cell
ToNumeric(s) == IF AllDigits(s) THEN Some(ToInt(s)) ELSE NULL

\* one row of df[present], Lto columns coerced; a column left out is NULL
SubsetRow(df, i) ==
    [c \in {"Horse"} |-> IF HasColumn(df, c) THEN Cell(df, i, c) ELSE NULL]
    @@ [c \in {LtoNames[k] : k \in 1..5} |->
          IF HasColumn(df, c) THEN ToNumeric(Cell(df, i, c)) ELSE NULL]

NoTable == [ok |-> FALSE, cols |-> <<>>, rows |-> <<>>]

\* the outcome of read_run_style_table(raw): ok is FALSE when it raises
read_run_style_table(raw) ==
    LET text  == WithoutTitle(raw)
        first == read_csv_tsv_first(text, 0)
    IN  IF ~first.ok THEN NoTable
        ELSE LET df == IF Present(first) = <<>> THEN read_csv_tsv_first(text, 1) ELSE first
             IN  IF ~df.ok THEN NoTable
                 ELSE [ok   |-> TRUE,
                       cols |-> Present(df),
                       rows |-> [i \in 1..Len(df.cells) |-> SubsetRow(df, i)]]

\* DataFrame.empty: no column or no row
IsEmpty(t) == t.cols = <<>> \/ t.rows = <<>>

----------------------------------------------------------------------------
(* TAB 1: the Process Run Style handler *)

MaxRsLines == 3

\* cells.join(sep)
RECURSIVE Join(_, _)
Join(cells, sep) ==
    IF Len(cells) = 1 THEN cells[1]
    ELSE cells[1] \o <<sep>> \o Join(Tail(cells), sep)

SixHeader == [k \in 1..6 |-> NameChars(Wanted[k])]

SixRow == << <<"A", "l">>, <<"1">>, <<"2">>, <<"3">>, <<"4">>, <<"5">> >>

RsCellRows ==
    { <<NameChars("Horse"), NameChars("Lto1")>>,
      << <<"P", "a", "c", "e">>, <<"R", "k">> >>,
      << <<"A", "l">>, <<"7">> >>,
      << <<"B", "o">>, <<"x">>, <<"3">> >>,
      SixHeader,
      SixRow }

TitleLine == <<"R", "u", "n", " ", "S", "t", "y", "l", "e", " ", "F", "i", "g", "u", "r", "e">>

RsLines ==
    {Join(cells, sep) : cells \in RsCellRows, sep \in {TAB, COMMA}}
    \cup {TitleLine, <<>>}

RsTexts == SeqsUpTo(RsLines, MaxRsLines)

InitRunStyle ==
    /\ \/ rs_file = NULL /\ rs_text \in RsTexts
       \/ rs_text = <<>> /\ rs_file \in {Some(t) : t \in RsTexts}
    /\ tab1_out = NULL
    /\ NoExtract /\ Tab2Idle /\ Tab3Idle

Tab1Rest == <<extractVars, rs_text, rs_file, tab2Vars, tab3Vars>>

\* the file's text when one is uploaded, else the text area's
Tab1Raw == IF rs_file # NULL THEN rs_file[1] ELSE rs_text

\* "" as a text
EmptyString(raw) == raw = <<>> \/ raw = << <<>> >>

Tab1Shown(msg, rs_df) == Some([msg |-> msg, rs_df |-> rs_df])

\* neither a file nor text: st.warning("Please paste text or upload a file.")
RunStyleNothingGiven ==
    /\ tab1_out = NULL
    /\ rs_file = NULL /\ Blank(rs_text)
    /\ tab1_out' = Tab1Shown("warning_paste", NoTable)
    /\ UNCHANGED Tab1Rest

\* an uploaded file that decodes to "": raw is falsy and nothing is shown
RunStyleEmptyFile ==
    /\ tab1_out = NULL
    /\ rs_file # NULL /\ EmptyString(rs_file[1])
    /\ tab1_out' = Tab1Shown("none", NoTable)
    /\ UNCHANGED Tab1Rest

Tab1Parses ==
    /\ tab1_out = NULL
    /\ IF rs_file # NULL THEN ~EmptyString(rs_file[1]) ELSE ~Blank(rs_text)

\* rs_df.empty: st.warning("Parsed data, but couldn't find the columns ...")
RunStyleNoColumns ==
    /\ Tab1Parses
    /\ LET rs_df == read_run_style_table(Tab1Raw)
       IN  /\ rs_df.ok /\ IsEmpty(rs_df)
           /\ tab1_out' = Tab1Shown("warning_columns", rs_df)
    /\ UNCHANGED Tab1Rest

\* st.success, the table, its download, session_state.run_style_df
RunStyleParsed ==
    /\ Tab1Parses
    /\ LET rs_df == read_run_style_table(Tab1Raw)
       IN  /\ rs_df.ok /\ ~IsEmpty(rs_df)
           /\ tab1_out' = Tab1Shown("success", rs_df)
    /\ UNCHANGED Tab1Rest

\* except Exception: st.error("Failed to parse Run Style data: ...")
RunStyleFailed ==
    /\ Tab1Parses
    /\ ~read_run_style_table(Tab1Raw).ok
    /\ tab1_out' = Tab1Shown("error", NoTable)
    /\ UNCHANGED Tab1Rest

NextRunStyle ==
    \/ RunStyleNothingGiven
    \/ RunStyleEmptyFile
    \/ RunStyleNoColumns
    \/ RunStyleParsed
    \/ RunStyleFailed

SpecRunStyle == InitRunStyle /\ [][NextRunStyle]_vars

----------------------------------------------------------------------------
(* Claims about read_run_style_table and the Run Style handler *)

Tab1Msg == tab1_out[1].msg

Tab1Table == tab1_out[1].rs_df

\* the handler went on to call read_run_style_table
Tab1Called == tab1_out # NULL /\ Tab1Msg \notin {"warning_paste", "none"}

\* the non-empty lines of the text behind the optional title line
Tab1Lines == SelectSeq(WithoutTitle(Tab1Raw), NonEmpty)

\* the wanted columns named by a line read as a header with separator sep
WantedIn(l, sep) ==
    {c \in {Wanted[k] : k \in 1..6} : \E j \in 1..Len(Split(l, sep)) : Split(l, sep)[j] = NameChars(c)}

NoWantedIn(l) == WantedIn(l, TAB) = {} /\ WantedIn(l, COMMA) = {}

\* C6: an input with none of Horse, Lto1..Lto5 under either header pass ends
\* in the "couldn't find the columns" warning with an empty result, never in
\* the "Failed to parse" error; this includes a text that is only the title
\* line or a single line.
C6_WarningNotError ==
    ( /\ Tab1Called
      /\ Len(Tab1Lines) >= 1 => NoWantedIn(Tab1Lines[1])
      /\ Len(Tab1Lines) >= 2 => NoWantedIn(Tab1Lines[2]) )
        => Tab1Msg = "warning_columns" /\ IsEmpty(Tab1Table)

CommaSixHeader == Join(SixHeader, COMMA)

CommaSixRow == Join(SixRow, COMMA)

\* C7: the strategies are tried until one yields the expected schema, so a
\* well-formed comma-delimited table whose header row is
\* Horse,Lto1,Lto2,Lto3,Lto4,Lto5 is returned with those six columns.
C7_CommaTable ==
    ( /\ Tab1Called
      /\ Len(Tab1Raw) >= 2
      /\ Tab1Raw[1] = CommaSixHeader
      /\ \A i \in 2..Len(Tab1Raw) : Tab1Raw[i] = CommaSixRow )
        => /\ Tab1Table.ok
           /\ Tab1Table.cols = Wanted
           /\ Len(Tab1Table.rows) = Len(Tab1Raw) - 1

\* every line of the text has the same number of sep-separated fields (more
\* than one) and none holds the other separator
Rectangular(text, sep, other) ==
    /\ text # <<>>
    /\ \A i \in 1..Len(text) :
         /\ Len(Split(text[i], sep)) = Len(Split(text[1], sep))
         /\ Len(Split(text[i], sep)) > 1
         /\ Len(Split(text[i], other)) = 1

\* C8: for every input whose header holds at least one wanted column, the
\* columns returned are exactly the wanted columns present in the header;
\* stated for the tables with one separator and rows of equal length.
C8_ExactlyPresent ==
    \A sep \in {TAB, COMMA} :
      ( /\ Tab1Called
        /\ Rectangular(WithoutTitle(Tab1Raw), sep, IF sep = TAB THEN COMMA ELSE TAB)
        /\ WantedIn(WithoutTitle(Tab1Raw)[1], sep) # {} )
          => /\ Tab1Table.ok
             /\ {Tab1Table.cols[k] : k \in 1..Len(Tab1Table.cols)}
                   = WantedIn(WithoutTitle(Tab1Raw)[1], sep)

----------------------------------------------------------------------------
(* TAB 3: the Process Both handler *)

MaxBothRsLines == 3

MaxBothChunks == 2

BoldEagle == <<"B", "o", "l", "d", " ", "E", "a", "g", "l", "e">>

BothRsLines ==
    { Join(<<NameChars("Horse"), NameChars("Lto1")>>, TAB),
      NameChars("Lto1"),
      Join(<<BoldEagle, <<"7">> >>, TAB),
      Join(<<<<" ", "b", "o", "l", "d", " ", "e", "a", "g", "l", "e", " ">>, <<"8">> >>, TAB),
      TitleLine }

BothRsTexts == SeqsUpTo(BothRsLines, MaxBothRsLines)

BothChunks == {Chunk(name, <<"5">>, n) : name \in {BoldEagle, <<"A", "l">>}, n \in {BlockSize}}

RECURSIVE BothChunkTexts(_)
BothChunkTexts(k) ==
    IF k = 0 THEN {<<>>}
    ELSE LET shorter == BothChunkTexts(k - 1)
         IN  shorter \cup {t \o c : t \in shorter, c \in BothChunks}

BothSpTexts ==
    {h \o t : h \in {<<>>, << <<"H", "o", "r", "s", "e", " ", "N", "a", "m", "e">> >>}, t \in BothChunkTexts(MaxBothChunks)}

InitBoth ==
    /\ rs_text_quick \in BothRsTexts
    /\ sp_text_quick \in BothSpTexts
    /\ tab3_out = NULL
    /\ NoExtract /\ Tab1Idle /\ Tab2Idle

Tab3Rest == <<extractVars, tab1Vars, tab2Vars, rs_text_quick, sp_text_quick>>

\* what the handler left on the page: the two warnings, the st.error, the
\* tables displayed (each with its download) and the joined table
Tab3Shown(warn_rs, warn_sp, error, rs, sp, joined) ==
    Some([warn_rs |-> warn_rs, warn_sp |-> warn_sp, error |-> error,
          rs_shown |-> rs, sp_shown |-> sp,
          simple_shown |-> IF sp = NULL THEN NULL ELSE Some(Simplified(sp[1])),
          joined |-> joined])

NanText == <<"n", "a", "n">>

\* astype(str).str.strip() of a cell of the Horse column
RsKey(cell) == IF cell = NULL THEN NanText ELSE Strip(cell)

\* the key of a speed row
SpKey(name) == Strip(name)

\* pd.merge(sp_norm, rs_norm, on="Horse Name", how="outer"): every pair of
\* rows with equal keys, and every row without a partner next to nulls.  A row
\* is <<key, index in the speed table, index in the run-style table>> with 0
\* for the missing side; the order of the rows is not modelled.
OuterMerge(sp, rs) ==
    LET pairs == {<<i, j>> \in (1..Len(sp)) \X (1..Len(rs)) :
                     SpKey(sp[i].name) = RsKey(rs[j].Horse)}
    IN  {[name |-> SpKey(sp[p[1]].name), si |-> p[1], ri |-> p[2]] : p \in pairs}
        \cup {[name |-> SpKey(sp[i].name), si |-> i, ri |-> 0] :
                 i \in {k \in 1..Len(sp) : \A p \in pairs : p[1] # k}}
        \cup {[name |-> RsKey(rs[j].Horse), si |-> 0, ri |-> j] :
                 j \in {k \in 1..Len(rs) : \A p \in pairs : p[2] # k}}

\* a warning for each empty box; nothing is parsed
BothMissingInput ==
    /\ tab3_out = NULL
    /\ Blank(rs_text_quick) \/ Blank(sp_text_quick)
    /\ tab3_out' = Tab3Shown(Blank(rs_text_quick), Blank(sp_text_quick), FALSE,
                             NULL, NULL, NULL)
    /\ UNCHANGED Tab3Rest

BothParse == tab3_out = NULL /\ ~Blank(rs_text_quick) /\ ~Blank(sp_text_quick)

\* read_run_style_table raises: the except clause shows the error
BothRunStyleFailed ==
    /\ BothParse
    /\ ~read_run_style_table(rs_text_quick).ok
    /\ tab3_out' = Tab3Shown(FALSE, FALSE, TRUE, NULL, NULL, NULL)
    /\ UNCHANGED Tab3Rest

\* parse_speed_blocks raises before anything is displayed
BothSpeedFailed ==
    /\ BothParse
    /\ read_run_style_table(rs_text_quick).ok
    /\ \E r \in parse_speed_blocks(sp_text_quick) :
          /\ ~r.ok
          /\ tab3_out' = Tab3Shown(FALSE, FALSE, TRUE, NULL, NULL, NULL)
    /\ UNCHANGED Tab3Rest

\* both tables are displayed; the run-style table has no Horse column and
\* pd.merge(on="Horse Name") raises
BothJoinFailed ==
    /\ BothParse
    /\ LET rs_df2 == read_run_style_table(rs_text_quick)
       IN  /\ rs_df2.ok
           /\ \A k \in 1..Len(rs_df2.cols) : rs_df2.cols[k] # "Horse"
           /\ \E r \in parse_speed_blocks(sp_text_quick) :
                 /\ r.ok
                 /\ tab3_out' = Tab3Shown(FALSE, FALSE, TRUE, Some(rs_df2), Some(r.df), NULL)
    /\ UNCHANGED Tab3Rest

\* both tables and the joined table are displayed
BothJoined ==
    /\ BothParse
    /\ LET rs_df2 == read_run_style_table(rs_text_quick)
       IN  /\ rs_df2.ok
           /\ \E k \in 1..Len(rs_df2.cols) : rs_df2.cols[k] = "Horse"
           /\ \E r \in parse_speed_blocks(sp_text_quick) :
                 /\ r.ok
                 /\ tab3_out' = Tab3Shown(FALSE, FALSE, FALSE, Some(rs_df2), Some(r.df),
                                          Some(OuterMerge(r.df, rs_df2.rows)))
    /\ UNCHANGED Tab3Rest

NextBoth ==
    \/ BothMissingInput
    \/ BothRunStyleFailed
    \/ BothSpeedFailed
    \/ BothJoinFailed
    \/ BothJoined

SpecBoth == InitBoth /\ [][NextBoth]_vars

----------------------------------------------------------------------------
(* Claims about Run Both *)

Tab3 == tab3_out[1]

\* the identity with letter case and surrounding white space ignored
Identity(s) == Lower(Strip(s))

\* C1: a speed row and a run-style row whose identities are equal after
\* ignoring letter case and leading/trailing white space are in the same
\* joined row.
C1_CaseInsensitiveJoin ==
    (tab3_out # NULL /\ Tab3.joined # NULL) =>
        \A i \in 1..Len(Tab3.sp_shown[1]), j \in 1..Len(Tab3.rs_shown[1].rows) :
            Identity(Tab3.sp_shown[1][i].name) = Identity(RsKey(Tab3.rs_shown[1].rows[j].Horse))
                => \E row \in Tab3.joined[1] : row.si = i /\ row.ri = j

\* C5: when one parser raises, a message is shown and the other input is still
\* parsed and its table and downloads are shown.
C5_OtherInputStillShown ==
    (tab3_out # NULL /\ ~Tab3.warn_rs /\ ~Tab3.warn_sp) =>
        /\ ( /\ ~read_run_style_table(rs_text_quick).ok
             /\ \A r \in parse_speed_blocks(sp_text_quick) : r.ok )
              => Tab3.error /\ Tab3.sp_shown # NULL /\ Tab3.simple_shown # NULL
        /\ ( /\ read_run_style_table(rs_text_quick).ok
             /\ \A r \in parse_speed_blocks(sp_text_quick) : ~r.ok )
              => Tab3.error /\ Tab3.rs_shown # NULL

\* C10: whenever both parsers return a table the joined table is produced and
\* holds every row of the speed table and every row of the run-style table,
\* also when the run-style table came back without some wanted column.
C10_FullOuterJoin ==
    ( /\ tab3_out # NULL /\ ~Tab3.warn_rs /\ ~Tab3.warn_sp
      /\ read_run_style_table(rs_text_quick).ok
      /\ \A r \in parse_speed_blocks(sp_text_quick) : r.ok )
        => /\ Tab3.joined # NULL
           /\ \A i \in 1..Len(Tab3.sp_shown[1]) : \E row \in Tab3.joined[1] : row.si = i
           /\ \A j \in 1..Len(Tab3.rs_shown[1].rows) : \E row \in Tab3.joined[1] : row.ri = j

----------------------------------------------------------------------------
(* The page as a whole: one button press on one of the tabs, or one call of
   extract_from_block *)

Init == InitExtract \/ InitSpeed \/ InitRunStyle \/ InitBoth

Next == NextExtract \/ NextSpeed \/ NextRunStyle \/ NextBoth

Spec == Init /\ [][Next]_vars

====
